---------------------------- MODULE Spec2Model ----------------------------
(***************************************************************************)
(* Baseball trajectory integrator (src/src/trajectory.rs and the records   *)
(* it is built from).                                                      *)
(*                                                                         *)
(* Every number of the program is an f32.  A number is modelled as         *)
(*   [c |-> "num", m |-> M, e |-> E]   the value M * 2^E, |M| < 2^24,       *)
(*   [c |-> "inf", m |-> 1 or -1, e |-> 0]   +infinity, -infinity          *)
(*   [c |-> "nan", m |-> 0, e |-> 0]   not a number                         *)
(* in canonical form (2^23 <= |M| unless E = EMin; zero is M = 0, E = 0),  *)
(* so that equality of records is equality of values.  The sign of zero    *)
(* is not modelled.  +, -, *, / and sqrt round to nearest, ties to even,   *)
(* as IEEE-754 does; exp is computed to within a few units in the last     *)
(* place; sin and cos are tabulated for the angles the model draws.        *)
(***************************************************************************)
EXTENDS Integers, Sequences, FiniteSets, TLC

(***************************************************************************)
(* The f32 format.                                                         *)
(***************************************************************************)
MantBits == 24
EMin == -149
EMax == 104

Zero == [c |-> "num", m |-> 0, e |-> 0]
NaN == [c |-> "nan", m |-> 0, e |-> 0]
Inf == [c |-> "inf", m |-> 1, e |-> 0]
NInf == [c |-> "inf", m |-> -1, e |-> 0]

IsNum(a) == a.c = "num"
IsNaN(a) == a.c = "nan"
IsInf(a) == a.c = "inf"
IsZero(a) == a.c = "num" /\ a.m = 0

Abs(n) == IF n < 0 THEN -n ELSE n
Sgn(n) == IF n < 0 THEN -1 ELSE IF n > 0 THEN 1 ELSE 0
SignOf(a) == IF a.m < 0 THEN -1 ELSE 1
Infinity(s) == IF s < 0 THEN NInf ELSE Inf

(* The number of bits of n, 0 <= n < 2^31. *)
BitLen8(n) == IF n >= 16 THEN (IF n >= 64 THEN (IF n >= 128 THEN 8 ELSE 7)
                               ELSE (IF n >= 32 THEN 6 ELSE 5))
              ELSE IF n >= 4 THEN (IF n >= 8 THEN 4 ELSE 3)
              ELSE IF n >= 2 THEN 2 ELSE n
BitLen(n) == IF n >= 16777216 THEN 24 + BitLen8(n \div 16777216)
             ELSE IF n >= 65536 THEN 16 + BitLen8(n \div 65536)
             ELSE IF n >= 256 THEN 8 + BitLen8(n \div 256)
             ELSE BitLen8(n)

(* s * q * 2^e with q < 2^MantBits: zero, an overflow, or the number.      *)
Pack(s, q, e) ==
    IF q = 0 THEN Zero
    ELSE IF e > EMax THEN Infinity(s)
    ELSE [c |-> "num", m |-> s * q, e |-> e]

(* Rounding up may carry into bit MantBits. *)
Renorm(s, q, e) ==
    IF q = 2^MantBits THEN Pack(s, 2^(MantBits - 1), e + 1) ELSE Pack(s, q, e)

(* q plus a remainder r out of 2 * half: to nearest, ties to even. *)
RoundUp(q, r, half, sticky) ==
    IF r > half \/ (r = half /\ (sticky \/ q % 2 = 1)) THEN q + 1 ELSE q

RoundShift(s, M, e, sticky, sh) ==
    IF sh <= 0 THEN Pack(s, M * 2^(-sh), e + sh)
    ELSE IF sh > 30 THEN Zero
    ELSE Renorm(s, RoundUp(M \div 2^sh, M % 2^sh, 2^(sh - 1), sticky), e + sh)

(* The bits to drop from an n-bit significand at exponent e: down to       *)
(* MantBits bits, more when the result is subnormal.                       *)
Shift(n, e) == IF e + n - MantBits < EMin THEN EMin - e ELSE n - MantBits

(* s * (M + sticky) * 2^e rounded to nearest, ties to even; 0 <= M < 2^31,  *)
(* sticky says that the exact value lies strictly between M and M + 1.     *)
RoundPack(s, M, e, sticky) ==
    IF M = 0 THEN Zero ELSE RoundShift(s, M, e, sticky, Shift(BitLen(M), e))

(* An integer |n| < 2^31 as an f32 (exact when |n| < 2^24). *)
FInt(n) == RoundPack(Sgn(n), Abs(n), 0, FALSE)
(* The significand of a non-zero number brought to MantBits bits, and the  *)
(* exponent that goes with it (a subnormal has fewer bits).                *)
NormM(a) == IF a.e > EMin THEN Abs(a.m)
            ELSE Abs(a.m) * 2^(MantBits - BitLen(Abs(a.m)))
NormE(a) == IF a.e > EMin THEN a.e
            ELSE a.e - (MantBits - BitLen(Abs(a.m)))

FNeg(a) == IF IsNaN(a) THEN NaN ELSE [a EXCEPT !.m = -a.m]

(* X + shifted or X - shifted with three guard bits; lost says that bits   *)
(* of the smaller operand fell off the end.                                *)
FAddAligned(s, X, shifted, lost, same, e) ==
    RoundPack(s, IF same THEN X + shifted
                 ELSE IF lost THEN X - shifted - 1 ELSE X - shifted,
              e, lost)

FAddShift(big, small, d) ==
    FAddAligned(SignOf(big), Abs(big.m) * 8,
                IF d > 30 THEN 0 ELSE (Abs(small.m) * 8) \div 2^d,
                IF d > 30 THEN TRUE ELSE (Abs(small.m) * 8) % 2^d # 0,
                SignOf(big) = SignOf(small), big.e - 3)

FAddNum(a, b) ==
    IF (b.e > a.e) \/ (b.e = a.e /\ Abs(b.m) > Abs(a.m))
    THEN FAddShift(b, a, b.e - a.e)
    ELSE FAddShift(a, b, a.e - b.e)

FAdd(a, b) ==
    IF IsNaN(a) \/ IsNaN(b) THEN NaN
    ELSE IF IsInf(a) THEN (IF IsInf(b) /\ b.m # a.m THEN NaN ELSE a)
    ELSE IF IsInf(b) THEN b
    ELSE IF a.m = 0 THEN b
    ELSE IF b.m = 0 THEN a
    ELSE FAddNum(a, b)

FSub(a, b) == FAdd(a, FNeg(b))

(* The 48-bit product of two 24-bit significands from its 12-bit halves:   *)
(* <<the high 24 bits, the low 24 bits>>.                                  *)
MulLow(h, low) == <<h + low \div 2^24, low % 2^24>>
MulMid(hh, mid, ll) == MulLow(hh + mid \div 4096, (mid % 4096) * 4096 + ll)
FMulMant(A, B) ==
    MulMid((A \div 4096) * (B \div 4096),
           (A \div 4096) * (B % 4096) + (A % 4096) * (B \div 4096),
           (A % 4096) * (B % 4096))

FMulPack(s, hl, e) ==
    RoundPack(s, hl[1] * 64 + hl[2] \div 2^18, e + 18, hl[2] % 2^18 # 0)

FMulNum(a, b) ==
    FMulPack(SignOf(a) * SignOf(b), FMulMant(NormM(a), NormM(b)),
             NormE(a) + NormE(b))

FMul(a, b) ==
    IF IsNaN(a) \/ IsNaN(b) THEN NaN
    ELSE IF IsInf(a) \/ IsInf(b)
         THEN (IF IsZero(a) \/ IsZero(b) THEN NaN
               ELSE Infinity(SignOf(a) * SignOf(b)))
    ELSE IF a.m = 0 \/ b.m = 0 THEN Zero
    ELSE FMulNum(a, b)

(* Long division: n more base-128 digits of r / B after the quotient q,    *)
(* <<quotient, remainder>>.                                                *)
RECURSIVE DivDigits(_, _, _, _)
DivDigits(q, r, B, n) ==
    IF n = 0 THEN <<q, r>>
    ELSE DivDigits(q * 128 + (r * 128) \div B, (r * 128) % B, B, n - 1)

FDivPack(s, qr, e) == RoundPack(s, qr[1], e - 28, qr[2] # 0)

FDivNum(a, b) ==
    FDivPack(SignOf(a) * SignOf(b),
             DivDigits(NormM(a) \div NormM(b), NormM(a) % NormM(b), NormM(b), 4),
             NormE(a) - NormE(b))

FDiv(a, b) ==
    IF IsNaN(a) \/ IsNaN(b) THEN NaN
    ELSE IF IsInf(a) THEN (IF IsInf(b) THEN NaN ELSE Infinity(SignOf(a) * SignOf(b)))
    ELSE IF IsInf(b) THEN Zero
    ELSE IF b.m = 0 THEN (IF a.m = 0 THEN NaN ELSE Infinity(SignOf(a)))
    ELSE IF a.m = 0 THEN Zero
    ELSE FDivNum(a, b)

(* The decimal literal n / d of the source, as the compiler rounds it. *)
Dec(n, d) == FDiv(FInt(n), FInt(d))

(* Digit-by-digit square root: A is consumed two bits at a time from bit   *)
(* pair i down to 0, then `zeros` pairs of zero bits follow:               *)
(* <<root, remainder>>.                                                    *)
RECURSIVE SqrtBits(_, _, _, _, _)
SqrtDigit(A, i, zeros, r, root) ==
    IF r >= root * 4 + 1
    THEN SqrtBits(A, i, zeros, r - (root * 4 + 1), root * 2 + 1)
    ELSE SqrtBits(A, i, zeros, r, root * 2)

SqrtBits(A, i, zeros, rem, root) ==
    IF i >= 0 THEN SqrtDigit(A, i - 1, zeros, rem * 4 + ((A \div 4^i) % 4), root)
    ELSE IF zeros > 0 THEN SqrtDigit(A, i, zeros - 1, rem * 4, root)
    ELSE <<root, rem>>

FSqrtPack(rr, e) == RoundPack(1, rr[1], (e \div 2) - 13, rr[2] # 0)

FSqrtNum(A, e) ==
    IF e % 2 # 0 THEN FSqrtPack(SqrtBits(A * 2, 12, 13, 0, 0), e - 1)
    ELSE FSqrtPack(SqrtBits(A, 12, 13, 0, 0), e)

FSqrt(a) ==
    IF IsNaN(a) THEN NaN
    ELSE IF IsInf(a) THEN (IF a.m > 0 THEN Inf ELSE NaN)
    ELSE IF a.m = 0 THEN Zero
    ELSE IF a.m < 0 THEN NaN
    ELSE FSqrtNum(NormM(a), NormE(a))

(* Comparisons: every comparison with a NaN is false. *)
IsNeg(d) == d.c # "nan" /\ d.m < 0
FLt(a, b) == ~IsNaN(a) /\ ~IsNaN(b) /\ a # b /\ IsNeg(FSub(a, b))
FLe(a, b) == ~IsNaN(a) /\ ~IsNaN(b) /\ (a = b \/ FLt(a, b))
FGe(a, b) == FLe(b, a)
FGt(a, b) == FLt(b, a)
(* f32::max: the larger argument; the other one when one is a NaN. *)
FMax(a, b) == IF IsNaN(a) THEN b ELSE IF IsNaN(b) THEN a
              ELSE IF FLt(a, b) THEN b ELSE a

(***************************************************************************)
(* exp, sin, cos (libm).                                                   *)
(***************************************************************************)
F(m, e) == [c |-> "num", m |-> m, e |-> e]
One == F(8388608, -23)
LN2 == F(11629080, -24)

(* The integer nearest to a (|a| < 2^30). *)
NearestInt(a) ==
    IF a.e >= 0 THEN a.m * 2^a.e
    ELSE IF -a.e > 30 THEN 0
    ELSE SignOf(a) * ((Abs(a.m) + 2^(-a.e - 1)) \div 2^(-a.e))

(* 1 + r (1 + r/2 (1 + r/3 ( ... (1 + r/n)))) from the innermost term.     *)
RECURSIVE ExpPoly(_, _, _)
ExpPolyNext(r, n, q) == IF IsNaN(q) THEN NaN ELSE ExpPoly(r, n - 1, q)
ExpPoly(r, n, p) ==
    IF n = 0 THEN p
    ELSE ExpPolyNext(r, n, FAdd(One, FDiv(FMul(r, p), FInt(n))))

(* e^a = 2^k * e^r with r = a - k ln 2, |r| <= (ln 2) / 2. *)
ExpScale(p, k) == RoundPack(1, Abs(p.m), p.e + k, FALSE)
ExpReduced(a, k) == ExpScale(ExpPoly(FSub(a, FMul(FInt(k), LN2)), 7, One), k)

FExp(a) ==
    IF IsNaN(a) THEN NaN
    ELSE IF IsInf(a) THEN (IF a.m > 0 THEN Inf ELSE Zero)
    ELSE IF a.m = 0 THEN One
    ELSE IF FGt(a, FInt(89)) THEN Inf
    ELSE IF FLt(a, FInt(-104)) THEN Zero
    ELSE ExpReduced(a, NearestInt(FDiv(a, LN2)))

(* (deg * PI / 180.0).sin() and .cos() for the angles the model draws,     *)
(* in degrees; the values are the f32 results.                             *)
PI == F(13176795, -22)
Deg0 == Zero
Deg27_5 == Dec(275, 10)
Deg90 == FInt(90)
DegMinus10 == FInt(-10)

SinDeg(d) ==
    CASE d = Deg0 -> Zero
      [] d = Deg27_5 -> F(15493712, -25)
      [] d = Deg90 -> One
      [] d = DegMinus10 -> F(-11653333, -26)
      [] OTHER -> NaN

CosDeg(d) ==
    CASE d = Deg0 -> One
      [] d = Deg27_5 -> F(14881572, -24)
      [] d = Deg90 -> F(-12303662, -48)
      [] d = DegMinus10 -> F(16522332, -24)
      [] OTHER -> NaN

(***************************************************************************)
(* Vector3<f32>, Vector2<f32> (nalgebra).                                  *)
(***************************************************************************)
Vec3(x, y, z) == [x |-> x, y |-> y, z |-> z]
Vec2(x, y) == [x |-> x, y |-> y]
VAdd(u, v) == Vec3(FAdd(u.x, v.x), FAdd(u.y, v.y), FAdd(u.z, v.z))
VScale(v, k) == Vec3(FMul(v.x, k), FMul(v.y, k), FMul(v.z, k))
VDiv(v, k) == Vec3(FDiv(v.x, k), FDiv(v.y, k), FDiv(v.z, k))
Magnitude(v) ==
    FSqrt(FAdd(FAdd(FMul(v.x, v.x), FMul(v.y, v.y)), FMul(v.z, v.z)))

(***************************************************************************)
(* util.rs                                                                 *)
(***************************************************************************)
f_to_c(fahrenheit) == FMul(FDiv(FInt(5), FInt(9)), FSub(fahrenheit, FInt(32)))
in_hg_to_mm_hg(in_hg) == FDiv(FMul(in_hg, FInt(1000)), Dec(3937, 100))

(***************************************************************************)
(* ball.rs, environment.rs, impact.rs                                      *)
(***************************************************************************)
BallDefault == [mass |-> Dec(5125, 1000), circumference |-> Dec(9125, 1000)]

BETA == Dec(1217, 10000000)

EnvironmentDefault ==
    [temperature |-> FInt(70), elevation |-> FInt(15),
     pressure |-> Dec(2992, 100), relative_humidity |-> FInt(50),
     wind_speed |-> Zero, wind_direction |-> Zero, wind_height |-> Zero]

calculate_svp(env) ==
    LET temperature_c == f_to_c(env.temperature)
    IN  FMul(Dec(45841, 10000),
             FExp(FDiv(FMul(FSub(Dec(18687, 1000),
                                 FDiv(temperature_c, Dec(2345, 10))),
                            temperature_c),
                       FAdd(Dec(25714, 100), temperature_c))))

calculate_rho(env) ==
    FMul(FMul(Dec(6261, 100000), Dec(12929, 10000)),
         FDiv(FMul(FDiv(FInt(273), FAdd(f_to_c(env.temperature), FInt(273))),
                   FSub(FMul(in_hg_to_mm_hg(env.pressure),
                             FExp(FMul(FNeg(BETA), env.elevation))),
                        FDiv(FMul(FMul(Dec(3783, 10000), env.relative_humidity),
                                  calculate_svp(env)),
                             FInt(100)))),
              FInt(760)))

calculate_wind_velocity(env) ==
    Vec2(FMul(FMul(env.wind_speed, Dec(1467, 1000)), SinDeg(env.wind_direction)),
         FMul(FMul(env.wind_speed, Dec(1467, 1000)), CosDeg(env.wind_direction)))

ImpactDefault ==
    [exit_speed |-> FInt(103), launch_angle |-> Deg27_5, direction |-> Deg0,
     back_spin |-> FInt(2500), side_spin |-> Zero, gyro_spin |-> Zero,
     x |-> Zero, y |-> FInt(2), z |-> FInt(3)]

calculate_velocity(exit_speed, launch_angle, direction) ==
    LET x == FMul(CosDeg(launch_angle), SinDeg(direction))
        y == FMul(CosDeg(launch_angle), CosDeg(direction))
        z == SinDeg(launch_angle)
        magnitude == FMul(Dec(1467, 1000), exit_speed)
    IN  Vec3(FMul(x, magnitude), FMul(y, magnitude), FMul(z, magnitude))

(* Called by Constants::from_conditions; the method itself is not in the   *)
(* sources: the initial velocity vector from the impact's speed and angles.*)
calculate_initial_velocity(impact) ==
    calculate_velocity(impact.exit_speed, impact.launch_angle, impact.direction)

calculate_cartesian_spin(impact, velocity) ==
    LET la == impact.launch_angle
        dir == impact.direction
        mag == Magnitude(velocity)
        x == FDiv(FMul(FAdd(FSub(FMul(impact.back_spin, CosDeg(dir)),
                                 FMul(FMul(impact.side_spin, SinDeg(la)), SinDeg(dir))),
                            FDiv(FMul(impact.gyro_spin, velocity.x), mag)),
                       PI), FInt(30))
        y == FDiv(FMul(FAdd(FSub(FMul(impact.back_spin, SinDeg(dir)),
                                 FMul(FMul(impact.side_spin, SinDeg(la)), CosDeg(dir))),
                            FDiv(FMul(impact.gyro_spin, velocity.y), mag)),
                       PI), FInt(30))
        z == FDiv(FMul(FAdd(FMul(impact.side_spin, CosDeg(la)),
                            FDiv(FMul(impact.gyro_spin, velocity.z), mag)),
                       PI), FInt(30))
    IN  Vec3(x, y, z)

(***************************************************************************)
(* trajectory.rs                                                           *)
(***************************************************************************)
TAU == FInt(25)
STATIC_DRAG_COEFFICIENT == Dec(3008, 10000)
SPIN_DRAG_COEFFICIENT == Dec(292, 10000)
(* 32.17404855643 as an f32 *)
GRAVITY == F(8434234, -18)

omega_to_omega_r(circumference, omega) ==
    FDiv(FMul(FDiv(FDiv(circumference, FInt(2)), PI), omega), FInt(12))

calculate_c_0(mass, circumference, rho) ==
    LET r == FDiv(circumference, Dec(9125, 1000))
    IN  FMul(FMul(FMul(Dec(7182, 100000), rho), FDiv(Dec(5125, 1000), mass)),
             FMul(r, r))

(* The struct literal of from_conditions, from the values its let          *)
(* bindings computed.                                                      *)
ConstantsOf(ball, environment, impact, rho, initial_velocity, cartesian_spin, omega) ==
    [c_0 |-> calculate_c_0(ball.mass, ball.circumference, rho),
     initial_position |-> Vec3(impact.x, impact.y, impact.z),
     initial_velocity |-> initial_velocity,
     initial_spin |-> Vec3(impact.back_spin, impact.side_spin, impact.gyro_spin),
     cartesian_spin |-> cartesian_spin,
     omega |-> omega,
     omega_r |-> omega_to_omega_r(ball.circumference, omega),
     wind_velocity |-> calculate_wind_velocity(environment),
     wind_height |-> environment.wind_height]

(* The let bindings are evaluated in the order of the source, each before  *)
(* the values that use it.                                                 *)
ConstantsOfSpin(ball, environment, impact, initial_velocity, cartesian_spin) ==
    CHOOSE constants \in
        {ConstantsOf(ball, environment, impact, rho, initial_velocity,
                     cartesian_spin, omega) :
            rho \in {calculate_rho(environment)},
            omega \in {Magnitude(cartesian_spin)}} : TRUE

ConstantsOfVelocity(ball, environment, impact, initial_velocity) ==
    CHOOSE constants \in
        {ConstantsOfSpin(ball, environment, impact, initial_velocity, cartesian_spin) :
            cartesian_spin \in {calculate_cartesian_spin(impact, initial_velocity)}} : TRUE

from_conditions(ball, environment, impact) ==
    CHOOSE constants \in
        {ConstantsOfVelocity(ball, environment, impact, initial_velocity) :
            initial_velocity \in {calculate_initial_velocity(impact)}} : TRUE

(* get_initial_state with the ball started on the ground instead of at    *)
(* the height of the impact.                                               *)
Constants_get_initial_state_on_ground(constants) ==
    [position |-> [constants.initial_position EXCEPT !.z = Zero],
     velocity |-> constants.initial_velocity,
     spin |-> constants.initial_spin,
     hang_time |-> Zero]

Constants_get_initial_state(constants) ==
    [position |-> constants.initial_position,
     velocity |-> constants.initial_velocity,
     spin |-> constants.initial_spin,
     hang_time |-> Zero]

(* Trajectory::new: the three records are stored and the constants are     *)
(* derived from them once.                                                 *)
Trajectory_new(ball, environment, impact) ==
    [ball |-> ball, environment |-> environment, impact |-> impact,
     constants |-> from_conditions(ball, environment, impact)]

(* get_initial_state deriving the constants again from the stored records.*)
get_initial_state_rederived(trajectory) ==
    Constants_get_initial_state(
        from_conditions(trajectory.ball, trajectory.environment, trajectory.impact))

get_initial_state(trajectory) ==
    Constants_get_initial_state(trajectory.constants)

calculate_drag_coefficient(spin, drag_decay) ==
    FAdd(STATIC_DRAG_COEFFICIENT,
         FMul(FMul(SPIN_DRAG_COEFFICIENT, FDiv(Magnitude(spin), FInt(1000))),
              drag_decay))

calculate_relative_wind_speed(wind_velocity, wind_height, velocity, z) ==
    IF FGe(z, wind_height)
    THEN Magnitude(Vec3(FSub(velocity.x, wind_velocity.x),
                        FSub(velocity.y, wind_velocity.y), velocity.z))
    ELSE Magnitude(velocity)

(* The wind term of the drag and Magnus formulas: the wind component less   *)
(* the wind height, floored at zero.                                       *)
WindTerm(wind_component, wind_height) ==
    FMax(FSub(wind_component, wind_height), Zero)

(* DragVector with the downrange velocity read in the lateral component.   *)
DragVectorIndexSlip(k, velocity, wind_velocity, wind_height) ==
    Vec3(FMul(k, FSub(velocity.y, WindTerm(wind_velocity.x, wind_height))),
         FMul(k, FSub(velocity.y, WindTerm(wind_velocity.y, wind_height))),
         FMul(k, velocity.z))

DragVector(k, velocity, wind_velocity, wind_height) ==
    Vec3(FMul(k, FSub(velocity.x, WindTerm(wind_velocity.x, wind_height))),
         FMul(k, FSub(velocity.y, WindTerm(wind_velocity.y, wind_height))),
         FMul(k, velocity.z))

calculate_drag_acceleration(trajectory, velocity, wind_velocity, relative_wind_speed, drag_coefficient) ==
    DragVector(FMul(FMul(FNeg(trajectory.constants.c_0), drag_coefficient),
                    relative_wind_speed),
               velocity, wind_velocity, trajectory.constants.wind_height)

(* MagnusVector with the lateral component of the cross product of spin    *)
(* and velocity instead of the literal 0.0.                                *)
MagnusVectorCross(k, cartesian_spin, velocity, wind_velocity, wind_height) ==
    Vec3(FMul(k, FSub(FMul(cartesian_spin.y, velocity.z),
                      FMul(cartesian_spin.z,
                           FSub(velocity.y, WindTerm(wind_velocity.y, wind_height))))),
         FMul(k, FSub(FMul(cartesian_spin.z, FSub(velocity.x, Zero)),
                      FMul(cartesian_spin.x, velocity.z))),
         FMul(k, FSub(FMul(cartesian_spin.x,
                           FSub(velocity.y, WindTerm(wind_velocity.y, wind_height))),
                      FMul(cartesian_spin.y, FSub(velocity.x, Zero)))))

MagnusVector(k, cartesian_spin, velocity, wind_velocity, wind_height) ==
    Vec3(Zero,
         FMul(k, FSub(FMul(cartesian_spin.z, FSub(velocity.x, Zero)),
                      FMul(cartesian_spin.x, velocity.z))),
         FMul(k, FSub(FMul(cartesian_spin.x,
                           FSub(velocity.y, WindTerm(wind_velocity.y, wind_height))),
                      FMul(cartesian_spin.y, FSub(velocity.x, Zero)))))

lift_coefficient(s) == FDiv(One, FAdd(Dec(232, 100), FDiv(Dec(4, 10), s)))

calculate_magnus_acceleration(trajectory, s, velocity, relative_wind_speed) ==
    MagnusVector(FMul(FMul(trajectory.constants.c_0,
                           FDiv(lift_coefficient(s), trajectory.constants.omega)),
                      relative_wind_speed),
                 trajectory.constants.cartesian_spin, velocity,
                 trajectory.constants.wind_velocity,
                 trajectory.constants.wind_height)

(* The values calculate_acceleration derives from the state before it      *)
(* calls the drag and Magnus terms.                                        *)
relative_wind_speed_of(trajectory, state) ==
    calculate_relative_wind_speed(trajectory.constants.wind_velocity,
                                  trajectory.constants.wind_height,
                                  state.velocity, state.position.z)

drag_decay_of(state) ==
    FExp(FDiv(FNeg(state.hang_time),
              FDiv(FMul(TAU, Dec(1467, 10)), Magnitude(state.velocity))))

(* acceleration[2] -= gravity *)
SubtractGravity(acceleration) ==
    [acceleration EXCEPT !.z = FSub(acceleration.z, GRAVITY)]

(* let s = (omega_r / relative_wind_speed) * drag_decay *)
spin_parameter(trajectory, relative_wind_speed, drag_decay) ==
    FMul(FDiv(trajectory.constants.omega_r, relative_wind_speed), drag_decay)

AccelerationOf(trajectory, state, relative_wind_speed, drag_decay) ==
    SubtractGravity(
        VAdd(calculate_drag_acceleration(
                 trajectory, state.velocity, trajectory.constants.wind_velocity,
                 relative_wind_speed,
                 calculate_drag_coefficient(state.spin, drag_decay)),
             calculate_magnus_acceleration(
                 trajectory,
                 spin_parameter(trajectory, relative_wind_speed, drag_decay),
                 state.velocity, relative_wind_speed)))

(* The let bindings are evaluated before the terms that use them.          *)
calculate_acceleration(trajectory, state) ==
    CHOOSE acceleration \in
        {AccelerationOf(trajectory, state, relative_wind_speed, drag_decay) :
            relative_wind_speed \in {relative_wind_speed_of(trajectory, state)},
            drag_decay \in {drag_decay_of(state)}} : TRUE

(* The State literal of step, from the acceleration its first line         *)
(* computed.                                                               *)
StateAfter(state, acceleration, delta) ==
    [position |-> VAdd(VAdd(state.position, VScale(state.velocity, delta)),
                       VDiv(VScale(acceleration, FMul(delta, delta)), FInt(2))),
     velocity |-> VAdd(state.velocity, VScale(acceleration, delta)),
     spin |-> state.spin,
     hang_time |-> FAdd(state.hang_time, delta)]

(* step with hang_time set to delta instead of advanced by it.             *)
step_hang_time_reset(state, trajectory, delta) ==
    [StateAfter(state, calculate_acceleration(trajectory, state), delta)
        EXCEPT !.hang_time = delta]

(* step with the spin vector decayed like its aerodynamic effect.          *)
step_spin_decayed(state, trajectory, delta) ==
    [StateAfter(state, calculate_acceleration(trajectory, state), delta)
        EXCEPT !.spin = VScale(state.spin, drag_decay_of(state))]

(* step with the acceleration evaluated again at the updated velocity.     *)
step_reevaluated(state, trajectory, delta) ==
    StateAfter(state,
               calculate_acceleration(
                   trajectory,
                   [state EXCEPT !.velocity =
                       VAdd(state.velocity,
                            VScale(calculate_acceleration(trajectory, state), delta))]),
               delta)

(* step that leaves a landed ball where it is.                             *)
step_stops_on_ground(state, trajectory, delta) ==
    IF FLe(state.position.z, Zero)
    THEN state
    ELSE StateAfter(state, calculate_acceleration(trajectory, state), delta)

step(state, trajectory, delta) ==
    CHOOSE next \in
        {StateAfter(state, acceleration, delta) :
            acceleration \in {calculate_acceleration(trajectory, state)}} : TRUE

(***************************************************************************)
(* The caller's inputs.  Ball, Environment and Impact have public fields,  *)
(* so a caller may pass the defaults or records with any field changed.    *)
(***************************************************************************)
BallHeavy == [BallDefault EXCEPT !.mass = FInt(6)]

(* A 10 mph wind blowing downrange that starts 10 ft above the ground.     *)
EnvironmentWindAloft ==
    [EnvironmentDefault EXCEPT !.wind_speed = FInt(10), !.wind_height = FInt(10)]

(* No wind, with the wind height left at 10 ft.                            *)
EnvironmentCalmAloft == [EnvironmentDefault EXCEPT !.wind_height = FInt(10)]

(* A 10 mph cross wind from the ground up.                                 *)
EnvironmentCrossWind ==
    [EnvironmentDefault EXCEPT !.wind_speed = FInt(10), !.wind_direction = Deg90]

ImpactNoSpin == [ImpactDefault EXCEPT !.back_spin = Zero]

ImpactMixedSpin ==
    [ImpactDefault EXCEPT !.side_spin = FInt(500), !.gyro_spin = FInt(300),
                          !.x = One]

(* A ball hit into the ground from 0.1 ft.                                 *)
ImpactLow ==
    [ImpactDefault EXCEPT !.launch_angle = DegMinus10, !.z = Dec(1, 10)]

ImpactPulled == [ImpactDefault EXCEPT !.direction = Deg90]

Scenarios ==
    { <<BallDefault, EnvironmentDefault, ImpactDefault>>,
      <<BallDefault, EnvironmentDefault, ImpactNoSpin>>,
      <<BallDefault, EnvironmentDefault, ImpactMixedSpin>>,
      <<BallDefault, EnvironmentDefault, ImpactLow>>,
      <<BallDefault, EnvironmentWindAloft, ImpactDefault>>,
      <<BallDefault, EnvironmentCalmAloft, ImpactMixedSpin>>,
      <<BallDefault, EnvironmentCrossWind, ImpactMixedSpin>>,
      <<BallHeavy, EnvironmentWindAloft, ImpactPulled>> }

(* The time increments a caller steps with: 0.7 s, and the largest power   *)
(* of two an f32 holds.                                                    *)
DeltaCoarse == Dec(7, 10)
DeltaHuge == F(8388608, 104)
Deltas == {DeltaCoarse, DeltaHuge}

(* The increment of the landing loop, 1.0 / 100.0.                         *)
DeltaTest == FDiv(FInt(1), FInt(100))

MaxSteps == 3
StepLimit == 10000

(***************************************************************************)
(* State.  trajectory is the caller's Trajectory, state the State value    *)
(* the caller holds, pc the caller's position (in the landing loop of      *)
(* tests::it_works, or calling the interface freely).  History variables:  *)
(* pristine is the Trajectory as Trajectory::new returned it, prev the     *)
(* state the last step was applied to, last_delta its increment, nsteps    *)
(* the steps taken since the initial state, uniform whether all of them    *)
(* used the same increment, after_write whether the last call was made on  *)
(* a trajectory whose public fields had been written.                      *)
(***************************************************************************)
VARIABLES trajectory, state, pc, pristine, prev, last_delta, nsteps, uniform, after_write

vars == <<trajectory, state, pc, pristine, prev, last_delta, nsteps, uniform, after_write>>

(* Whether a public field of the trajectory has been written since its     *)
(* construction.                                                           *)
Written ==
    \/ trajectory.ball # pristine.ball
    \/ trajectory.environment # pristine.environment
    \/ trajectory.impact # pristine.impact

Start(ball, environment, impact, at) ==
    /\ trajectory = Trajectory_new(ball, environment, impact)
    /\ pristine = trajectory
    /\ state = get_initial_state(trajectory)
    /\ pc = at
    /\ prev = state
    /\ last_delta = Zero
    /\ nsteps = 0
    /\ uniform = TRUE
    /\ after_write = FALSE

Init == \E sc \in Scenarios : Start(sc[1], sc[2], sc[3], "caller")

(* state = state.step(&trajectory, delta) *)
Step(delta) ==
    /\ pc = "caller"
    /\ nsteps < MaxSteps
    /\ state' = step(state, trajectory, delta)
    /\ prev' = state
    /\ last_delta' = delta
    /\ nsteps' = nsteps + 1
    /\ uniform' = (uniform /\ (nsteps = 0 \/ delta = last_delta))
    /\ after_write' = Written
    /\ UNCHANGED <<trajectory, pc, pristine>>

(* state = trajectory.get_initial_state() *)
GetInitialState ==
    /\ pc = "caller"
    /\ state' = get_initial_state(trajectory)
    /\ prev' = state'
    /\ last_delta' = Zero
    /\ nsteps' = 0
    /\ uniform' = TRUE
    /\ after_write' = Written
    /\ UNCHANGED <<trajectory, pc, pristine>>

(* Writes to the public fields of an existing Trajectory.                  *)
WriteBall ==
    /\ pc = "caller"
    /\ trajectory' = [trajectory EXCEPT !.ball = BallHeavy]
    /\ UNCHANGED <<state, pc, pristine, prev, last_delta, nsteps, uniform, after_write>>

WriteEnvironment ==
    /\ pc = "caller"
    /\ trajectory' = [trajectory EXCEPT !.environment = EnvironmentCrossWind]
    /\ UNCHANGED <<state, pc, pristine, prev, last_delta, nsteps, uniform, after_write>>

WriteImpact ==
    /\ pc = "caller"
    /\ trajectory' = [trajectory EXCEPT !.impact = ImpactNoSpin]
    /\ UNCHANGED <<state, pc, pristine, prev, last_delta, nsteps, uniform, after_write>>

StepAny == \E delta \in Deltas : Step(delta)

Next ==
    \/ StepAny
    \/ GetInitialState
    \/ WriteBall
    \/ WriteEnvironment
    \/ WriteImpact

Spec == Init /\ [][Next]_vars

(***************************************************************************)
(* The landing loop of tests::it_works: default records, delta = 1/100,    *)
(* step until the height is <= 0.                                          *)
(***************************************************************************)
InitDefault == Start(BallDefault, EnvironmentDefault, ImpactDefault, "loop")

LoopStep ==
    /\ pc = "loop"
    /\ nsteps < StepLimit
    /\ state' = step(state, trajectory, DeltaTest)
    /\ pc' = IF FLe(state'.position.z, Zero) THEN "done" ELSE "loop"
    /\ prev' = state
    /\ last_delta' = DeltaTest
    /\ nsteps' = nsteps + 1
    /\ UNCHANGED <<trajectory, pristine, uniform, after_write>>

NextDefault == LoopStep

SpecDefault == InitDefault /\ [][NextDefault]_vars

FairSpecDefault == SpecDefault /\ WF_vars(LoopStep)

(***************************************************************************)
(* Properties.                                                             *)
(***************************************************************************)
Finite3(v) == IsNum(v.x) /\ IsNum(v.y) /\ IsNum(v.z)

IsClose(a, b, tolerance) ==
    FLe(FSub(a, b), tolerance) /\ FLe(FSub(b, a), tolerance)

(* n * d is a finite f32: its significand fits 24 bits and its exponent    *)
(* is in range.                                                            *)
Representable(n, d) ==
    /\ IsNum(d)
    /\ \/ BitLen(n * Abs(d.m)) <= MantBits
       \/ (n * Abs(d.m)) % 2^(BitLen(n * Abs(d.m)) - MantBits) = 0
    /\ d.e + BitLen(n * Abs(d.m)) - MantBits <= EMax

(* h = n * d as real numbers, compared on integers.                        *)
ExactMultiple(n, d, h) ==
    /\ IsNum(d) /\ IsNum(h)
    /\ h.e >= d.e
    /\ h.e - d.e <= 6
    /\ h.m * 2^(h.e - d.e) = n * d.m

(* The Magnus and drag terms as calculate_acceleration computes them for   *)
(* a state.                                                                *)
MagnusOf(t, st) ==
    calculate_magnus_acceleration(
        t, spin_parameter(t, relative_wind_speed_of(t, st), drag_decay_of(st)),
        st.velocity, relative_wind_speed_of(t, st))

(* The trajectory with the wind velocity of its constants set to zero.     *)
NoWind(t) == [t EXCEPT !.constants.wind_velocity = Vec2(Zero, Zero)]

(* C1 (as amended): the initial state has hang_time 0; every step returns  *)
(* the f32 sum of the input hang_time and delta, which for delta > 0 is    *)
(* never less than the input hang_time; after n steps with the same delta  *)
(* hang_time equals n*delta and is strictly greater than before the last   *)
(* step provided every multiple k*delta, k <= n, is a finite f32.          *)
C1_HangTimeRounded ==
    /\ nsteps = 0 => state.hang_time = Zero
    /\ nsteps > 0 =>
          /\ state.hang_time = FAdd(prev.hang_time, last_delta)
          /\ FGe(state.hang_time, prev.hang_time)
    /\ (nsteps > 0 /\ uniform /\ \A k \in 1..nsteps : Representable(k, last_delta)) =>
          /\ ExactMultiple(nsteps, last_delta, state.hang_time)
          /\ FGt(state.hang_time, prev.hang_time)

(* Three steps of 0.7 s: the third sum is rounded.                         *)
C1_Witness ==
    /\ nsteps = 3 /\ uniform /\ last_delta = DeltaCoarse
    /\ IsNum(state.hang_time)
    /\ ~ExactMultiple(3, DeltaCoarse, state.hang_time)

(* C1 as stated: after n steps with the same delta, hang_time is exactly   *)
(* n*delta and strictly greater than in the state before.                  *)
C1_HangTimeExact ==
    /\ nsteps = 0 => state.hang_time = Zero
    /\ (nsteps > 0 /\ uniform) =>
          /\ ExactMultiple(nsteps, last_delta, state.hang_time)
          /\ FGt(state.hang_time, prev.hang_time)

(* C2 (as amended): the lateral (x, index 0) component of the Magnus       *)
(* acceleration is exactly 0 in every state of every trajectory.           *)
C2_MagnusLateralZero == MagnusOf(trajectory, state).x = Zero

(* A ball with back, side and gyro spin in flight: the other two Magnus    *)
(* components are not zero.                                                *)
C2_Witness ==
    /\ nsteps >= 1
    /\ pristine.impact = ImpactMixedSpin
    /\ Finite3(MagnusOf(trajectory, state))
    /\ MagnusOf(trajectory, state).y # Zero
    /\ MagnusOf(trajectory, state).z # Zero

(* C2 as stated: the downrange (y) component of the Magnus acceleration    *)
(* is exactly 0.                                                           *)
C2_MagnusDownrangeZero == MagnusOf(trajectory, state).y = Zero

(* C3: in every state below the wind height the acceleration is the one    *)
(* computed with zero wind velocity.                                       *)
C3_NoWindBelowHeight ==
    FLt(state.position.z, trajectory.constants.wind_height) =>
        calculate_acceleration(trajectory, state)
            = calculate_acceleration(NoWind(trajectory), state)

(* C4: the constants are those Trajectory::new derived, and the state the  *)
(* caller holds is what get_initial_state and step return on the           *)
(* trajectory as it was constructed, whatever has been written since.      *)
C4_ConstantsFrozen ==
    /\ trajectory.constants = pristine.constants
    /\ nsteps = 0 => state = get_initial_state(pristine)
    /\ nsteps > 0 => state = step(prev, pristine, last_delta)

(* A step taken after all three public fields were written.                *)
C4_Witness ==
    /\ after_write /\ nsteps >= 1
    /\ trajectory.ball # pristine.ball
    /\ trajectory.environment # pristine.environment
    /\ trajectory.impact # pristine.impact
    /\ Finite3(state.position)

(* C5: the spin of every state is the initial spin, a step returns the     *)
(* spin of its input, and stepping the retained input state again gives    *)
(* the state the step returned.                                            *)
C5_SpinKeptStepPure ==
    /\ state.spin = pristine.constants.initial_spin
    /\ nsteps > 0 =>
          /\ state.spin = prev.spin
          /\ step(prev, trajectory, last_delta) = state

(* Two steps on: position and velocity have moved, the spin has not.       *)
C5_Witness ==
    /\ nsteps >= 2
    /\ Finite3(state.position) /\ Finite3(state.velocity)
    /\ state.position # prev.position
    /\ state.velocity # prev.velocity
    /\ state.spin = Vec3(FInt(2500), FInt(500), FInt(300))

(* C6: the landing loop on the defaults at delta = 1/100 stops before      *)
(* StepLimit steps, on a step from positive height to height <= 0.         *)
C6_LandsWithinLimit ==
    /\ nsteps < StepLimit
    /\ pc = "loop" => FGt(state.position.z, Zero)
    /\ pc = "done" =>
          /\ FGt(prev.position.z, Zero)
          /\ FLe(state.position.z, Zero)

(* The loop has stopped, after 560 steps.                                  *)
C6_Witness == pc = "done" /\ nsteps = 560 /\ FLt(state.position.z, Zero)

(* C7: the landing loop on the defaults stops at (0.0, 421.509, -0.25),    *)
(* to within a tenth of a foot.                                            *)
C7_ReferenceLanding ==
    pc = "done" =>
        /\ state.position.x = Zero
        /\ IsClose(state.position.y, Dec(421509, 1000), Dec(1, 10))
        /\ IsClose(state.position.z, FNeg(Dec(25, 100)), Dec(1, 10))

(* One component of the update, from the pre-step values.                  *)
Advance(p, v, a, d) == FAdd(FAdd(p, FMul(v, d)), FDiv(FMul(a, FMul(d, d)), FInt(2)))

PreStepAcceleration == calculate_acceleration(pristine, prev)

SingleStage(before, after, a, d) ==
    /\ after.position.x = Advance(before.position.x, before.velocity.x, a.x, d)
    /\ after.position.y = Advance(before.position.y, before.velocity.y, a.y, d)
    /\ after.position.z = Advance(before.position.z, before.velocity.z, a.z, d)
    /\ after.velocity.x = FAdd(before.velocity.x, FMul(a.x, d))
    /\ after.velocity.y = FAdd(before.velocity.y, FMul(a.y, d))
    /\ after.velocity.z = FAdd(before.velocity.z, FMul(a.z, d))

InFlightTransition(before, after, a, d) ==
    /\ after.hang_time = FAdd(before.hang_time, d)
    /\ after.position =
          VAdd(VAdd(before.position, VScale(before.velocity, d)),
               VDiv(VScale(a, FMul(d, d)), FInt(2)))
    /\ after.velocity = VAdd(before.velocity, VScale(a, d))
    /\ after.spin = before.spin

(* C9: a step applied to a state with height <= 0 performs the same        *)
(* transition as in flight: hang_time advances by delta and position and   *)
(* velocity are integrated from the acceleration of the landed state.      *)
C9_StepsAfterLanding ==
    (nsteps > 0 /\ FLe(prev.position.z, Zero)) =>
        InFlightTransition(prev, state, PreStepAcceleration, last_delta)

(* A step applied to a landed ball has moved it further below ground.      *)
C9_Witness ==
    /\ nsteps >= 2
    /\ FLe(prev.position.z, Zero)
    /\ Finite3(state.position)
    /\ FLt(state.position.z, prev.position.z)
    /\ FGt(state.hang_time, prev.hang_time)

(* The precondition of the lateral invariant, on the records the           *)
(* trajectory was constructed from.                                        *)
LateralPrecondition ==
    /\ pristine.constants.initial_velocity.x = Zero
    /\ IsZero(pristine.environment.wind_speed)
    /\ FGe(pristine.environment.wind_height, Zero)

(* C10 (as amended): with initial lateral velocity 0, wind speed 0 and     *)
(* wind height >= 0, in every reachable state the lateral velocity is      *)
(* exactly 0 or NaN and the lateral position is the impact's x or NaN.     *)
C10_LateralZeroOrNaN ==
    LateralPrecondition =>
        /\ state.velocity.x \in {Zero, NaN}
        /\ state.position.x \in {pristine.impact.x, NaN}

(* Three steps of a ball with back, side and gyro spin hit from x = 1.     *)
C10_Witness ==
    /\ LateralPrecondition
    /\ nsteps = 3
    /\ pristine.impact = ImpactMixedSpin
    /\ Finite3(state.position) /\ Finite3(state.velocity)
    /\ state.velocity.x = Zero
    /\ state.position.x = One

(* C10 as stated: with initial lateral velocity 0, wind speed 0 and wind   *)
(* height >= 0, the lateral velocity is exactly 0 and the lateral          *)
(* position the impact's x in every reachable state.                       *)
C10_LateralExact ==
    LateralPrecondition =>
        /\ state.velocity.x = Zero
        /\ state.position.x = pristine.impact.x

=============================================================================
